---- MODULE Spec2Model ----
(***************************************************************************)
(* Job orchestration of benefice (src/src/main.rs): the create-job handler *)
(* root_post, the per-job timeout task it spawns, root_delete, reader, and *)
(* the session teardown of the surrounding session layer.  One process per *)
(* in-flight request; steps are cut at the await points and at the reads   *)
(* and writes of the shared state (session slot, Job::count(), the port    *)
(* registry), because #[tokio::main] runs handlers on several threads.     *)
(* Spec follows the requests of several sessions with the upload as one    *)
(* step; UploadSpec follows one request through the parts and chunks of    *)
(* its upload; SessionSpec follows one session with its output reads and   *)
(* the exit of its Jobs' processes.                                        *)
(***************************************************************************)
EXTENDS FiniteSets, Integers, Naturals, Sequences, TLC

(* ---- bounds of the model ---- *)
NUsers == 2
MaxReq == 2
MaxPort == 4
MaxDecl == 2
MaxJobs == 2
\* multipart parts of one upload, length of one chunk of a part, bytes a Job
\* writes to its output stream
MaxParts == 3
MaxChunk == 3
MaxOut == 3

(* ---- operator configuration (Args), scaled to the port universe ---- *)
port_min == 1
port_max == 3
\* --size-limit-default, --size-limit-starred (MiB)
size_limit_default == 1
size_limit_starred == 2
\* --timeout-default, --timeout-starred (seconds)
timeout_default == 300
timeout_starred == 900

(* ---- constants of main.rs, scaled to the chunk and output bounds ---- *)
\* 1024 * 1024 in `size * 1024 * 1024`
MiB == 2
\* 256 * 1024
TOML_MAX == 2
\* the length of buf: [0; 4096]
BufCap == 2

Users == 1..NUsers
Reqs == 1..MaxReq
Ports == 0..MaxPort
PortSets == {S \in SUBSET Ports : Cardinality(S) <= MaxDecl}

None == 0

\* The holder of a session's write lock when it is an output read.
Reader == -1

VARIABLES
    jobs,                    \* Other.jobs: the configured ceiling
    shared_port_protections, \* Other.shared_port_protections
    log_info,                \* the EnvFilter built from RUST_LOG enables the info! event
                             \*   "job started" of root_post
    nsess,                   \* sessions 1..nsess have been created by the session layer
    stored,                  \* stored[u]: the session layer still holds a strong Ref to u's session
    slot,                    \* slot[u]: uuid of the Job in user.data, None when empty
    lock,                    \* lock[u]: holder of the session's write lock
    registry,                \* ports held in the Port Registry
    count,                   \* Job::count()
    nreq,                    \* number of create requests issued so far
    pc,                      \* pc[r]: position of create request r in root_post
                             \*   ("arm": the Job is installed and the write guard
                             \*   dropped, the timeout task not spawned yet;
                             \*   "log": the task is spawned, the handler is at the
                             \*   user.read().await of the info! event)
    ruser,                   \* ruser[r]: the session request r / timeout task r refers to
                             \*   (None once both have ended)
    rports,                  \* rports[r]: the ports parsed from r's configuration / owned by Job r
    tpc,                     \* tpc[r]: position of the timeout task armed for Job r, at its
                             \*   end the branch it took ("gone", "stale", "killed")
    resp,                    \* the outcome of the handler that ended last
    reaps,                   \* reaps[j]: times Job j's ports were released and the count decremented
    tttl,                    \* tttl[j]: the ttl the timeout task of Job j sleeps for (0: not armed)
    exited,                  \* exited[j]: the child process of Job j has exited on its own
    cursor,                  \* cursor[j]: bytes of Job j's output stream read so far
    rd,                      \* the outcome of the output read that ended last
    star,                    \* is_starred("enarx/enarx") of the requesting users
    field,                   \* the multipart field root_post is in ("none": between fields,
                             \*   "end": the stream ended with both artifacts staged)
    wasm,                    \* Option<NamedTempFile>: <<>> or <<bytes staged>>
    toml,                    \* Option<NamedTempFile>: <<>> or <<bytes staged>>
    len,                     \* len of the chunk loop
    written,                 \* bytes written to the staging file `out`
    parts,                   \* the parts the multipart stream has delivered
    item                     \* the last thing the multipart stream delivered

vars == <<jobs, shared_port_protections, log_info, nsess, stored, slot, lock, registry, count,
          nreq, pc, ruser, rports, tpc, resp, reaps, tttl, exited, cursor, rd,
          star, field, wasm, toml, len, written, parts, item>>

cfgvars == <<jobs, shared_port_protections, log_info, nsess>>

\* The state of the output reads and of the child processes.
sessvars == <<exited, cursor, rd>>

\* The state of the upload of a create request.
upvars == <<star, field, wasm, toml, len, written, parts, item>>

(* ---- pure helpers ---- *)

\* Range<u16>::contains for port_range = port_min..port_max
port_range_contains(p) == port_min <= p /\ p < port_max

\* Variant of illegal_ports that stops at the first (lowest) offending port.
illegal_ports_first(ports) ==
    LET bad == {p \in ports : ~port_range_contains(p)}
    IN  IF bad = {} THEN {} ELSE {CHOOSE p \in bad : \A q \in bad : p <= q}

\* ports.iter().filter(|port| !port_range.contains(port))
illegal_ports(ports) == {p \in ports : ~port_range_contains(p)}

\* ports::try_reserve: the conflicting ports (empty: success)
port_conflicts(ports) == ports \cap registry

\* Limits::decide
decide(s) ==
    [ttl  |-> IF s THEN timeout_starred ELSE timeout_default,
     size |-> IF s THEN size_limit_starred ELSE size_limit_default]

\* Strong Refs to u's session: the session layer's, one per in-flight create
\* handler, one per output read in progress, one per timeout task between
\* weak.upgrade() and its end.
Strong(u) ==
    (IF stored[u] THEN 1 ELSE 0)
    + (IF lock[u] = Reader THEN 1 ELSE 0)
    + Cardinality({r \in Reqs : ruser[r] = u /\ pc[r] \notin {"idle", "done"}})
    + Cardinality({r \in Reqs : ruser[r] = u /\ tpc[r] = "upgraded"})

\* The timeout task of Job r has not ended: it still holds its weak or
\* upgraded Ref, so ruser[r] stays recorded for it.
TaskPending(r) == tpc[r] \in {"sleeping", "upgraded"}

\* A response, labelled with the line of main.rs that returns it.
Response(line, status, ports) == [line |-> line, status |-> status, ports |-> ports]

\* What the multipart stream delivers: a part (its name and content type),
\* a chunk of the current part, the end of the part or of the stream, an error.
Item(kind, name, ctype, size) == [kind |-> kind, name |-> name, ctype |-> ctype, size |-> size]

\* The result of an output read: what Job::read under the deadline came to
\* ("elapsed", "failed", "ok"), and the status and body reader returns.
Read(outcome, status, bytes) == [outcome |-> outcome, status |-> status, bytes |-> bytes]

\* No upload in progress, no output read yet, no process exited.
InitIO ==
    /\ tttl = [r \in Reqs |-> 0]
    /\ exited = [r \in Reqs |-> FALSE]
    /\ cursor = [r \in Reqs |-> 0]
    /\ rd = Read("none", "none", <<>>)
    /\ field = "none"
    /\ wasm = <<>>
    /\ toml = <<>>
    /\ len = 0
    /\ written = 0
    /\ parts = <<>>
    /\ item = Item("none", "none", "none", 0)

Init ==
    /\ jobs \in 1..MaxJobs
    /\ shared_port_protections \in BOOLEAN
    /\ log_info \in BOOLEAN
    /\ nsess = 0
    /\ stored = [u \in Users |-> FALSE]
    /\ slot = [u \in Users |-> None]
    /\ lock = [u \in Users |-> None]
    /\ registry = {}
    /\ count = 0
    /\ nreq = 0
    /\ pc = [r \in Reqs |-> "idle"]
    /\ ruser = [r \in Reqs |-> None]
    /\ rports = [r \in Reqs |-> {}]
    /\ tpc = [r \in Reqs |-> "none"]
    /\ resp = Response(0, "none", {})
    /\ reaps = [r \in Reqs |-> 0]
    /\ InitIO
    /\ star = FALSE

(* ---- Data::kill_job / Job::kill ---- *)

\* Takes the Job out of the slot, releases its ports, decrements the count.
kill_job(u) ==
    IF slot[u] = None
    THEN UNCHANGED <<slot, registry, count, rports, reaps>>
    ELSE /\ slot' = [slot EXCEPT ![u] = None]
         /\ registry' = registry \ rports[slot[u]]
         /\ count' = count - 1
         /\ rports' = [rports EXCEPT ![slot[u]] = {}]
         /\ reaps' = [reaps EXCEPT ![slot[u]] = @ + 1]

(* ---- root_post ---- *)

\* return Err(..): the handler ends and drops its strong Ref.
Reject(r, line, status, ports) ==
    /\ resp' = Response(line, status, ports)
    /\ pc' = [pc EXCEPT ![r] = "done"]
    /\ ruser' = [ruser EXCEPT ![r] = None]

\* A create request for session u arrives (the handler holds a strong Ref);
\* session nsess + 1 comes into being with its user's first request.
\* let (ttl, size) = limits.decide(..is_starred("enarx/enarx").await);
\* if user.read().await.data.job().is_some() { return Err(..) }
StartAs(u, s) ==
    /\ nreq < MaxReq
    /\ star' = s
    /\ \/ u <= nsess /\ stored[u] /\ UNCHANGED <<nsess, stored>>
       \/ /\ u = nsess + 1
          /\ nsess' = u
          /\ stored' = [stored EXCEPT ![u] = TRUE]
    /\ lock[u] = None
    /\ nreq' = nreq + 1
    /\ IF slot[u] # None
       THEN Reject(nreq + 1, 293, "redirect", {})
       ELSE /\ pc' = [pc EXCEPT ![nreq + 1] = "pre_count"]
            /\ ruser' = [ruser EXCEPT ![nreq + 1] = u]
            /\ UNCHANGED resp
    /\ UNCHANGED <<jobs, shared_port_protections, log_info, slot, lock, registry,
                   count, rports, tpc, reaps, sessvars, tttl>>
    /\ UNCHANGED <<field, wasm, toml, len, written, parts, item>>

\* A create request of a user who has not starred the repository.
Start(u) == StartAs(u, FALSE)

\* Variant of PreCheckCount that goes on to the upload whatever the count.
PreCheckCountSkipped(r) ==
    /\ pc[r] = "pre_count"
    /\ pc' = [pc EXCEPT ![r] = "ingest"]
    /\ UNCHANGED <<resp, ruser>>
    /\ UNCHANGED <<sessvars, upvars, tttl>>
    /\ UNCHANGED <<cfgvars, stored, slot, lock, registry, count, nreq, rports,
                   tpc, reaps>>

\* if jobs::Job::count() >= jobs { return Err(..) }
PreCheckCount(r) ==
    /\ pc[r] = "pre_count"
    /\ IF count >= jobs
       THEN Reject(r, 297, "too_many_workloads", {})
       ELSE pc' = [pc EXCEPT ![r] = "ingest"] /\ UNCHANGED <<resp, ruser>>
    /\ UNCHANGED <<sessvars, upvars, tttl>>
    /\ UNCHANGED <<cfgvars, stored, slot, lock, registry, count, nreq, rports,
                   tpc, reaps>>

(* ---- root_post: the multipart loop in detail ---- *)

PartNames == {"wasm", "toml", "other"}
ContentTypes == {"application/wasm", "none", "text/plain"}

\* What multipart.next_field().await can deliver.
FieldItems ==
    {Item("error", "none", "none", 0), Item("end", "none", "none", 0)}
        \cup {Item("part", n, c, 0) : n \in PartNames, c \in ContentTypes}

\* What field.chunk().await can deliver.
ChunkItems ==
    {Item("error", "none", "none", 0), Item("eof", "none", "none", 0)}
        \cup {Item("chunk", "none", "none", c) : c \in 1..MaxChunk}

\* Variant of over_limit that also refuses a length equal to the limit.
over_limit_inclusive(l, limit) == l >= limit

\* if len > size * 1024 * 1024 / if len > TOML_MAX
over_limit(l, limit) == l > limit

\* The limit of the chunk loop of field f.
limit_of(f) == IF f = "wasm" THEN decide(star).size * MiB ELSE TOML_MAX

\* Variant of NextField without the is_some() checks: a second "wasm" or
\* "toml" part replaces the first.
NextFieldLastWins(r) ==
    /\ pc[r] = "ingest"
    /\ field = "none"
    /\ \E it \in FieldItems :
          /\ item' = it
          /\ IF it.kind = "error"
             THEN /\ Reject(r, 306, "bad_request", {})
                  /\ UNCHANGED <<field, len, written, parts>>
             ELSE IF it.kind = "end"
             THEN /\ UNCHANGED <<len, written, parts>>
                  /\ IF wasm = <<>> THEN Reject(r, 373, "bad_request", {}) /\ UNCHANGED field
                     ELSE IF toml = <<>>
                     THEN Reject(r, 374, "bad_request", {}) /\ UNCHANGED field
                     ELSE field' = "end" /\ UNCHANGED <<pc, resp, ruser>>
             ELSE /\ Len(parts) < MaxParts
                  /\ parts' = Append(parts, [name |-> it.name, ctype |-> it.ctype])
                  /\ IF it.name = "other"
                     THEN UNCHANGED <<field, len, written, pc, resp, ruser>>
                     ELSE IF it.name = "wasm" /\ it.ctype # "application/wasm"
                     THEN /\ Reject(r, 311, "unsupported_media_type", {})
                          /\ UNCHANGED <<field, len, written>>
                     ELSE IF it.name = "toml" /\ it.ctype # "none"
                     THEN /\ Reject(r, 341, "bad_request", {})
                          /\ UNCHANGED <<field, len, written>>
                     ELSE /\ field' = it.name
                          /\ len' = 0
                          /\ written' = 0
                          /\ UNCHANGED <<pc, resp, ruser>>
    /\ UNCHANGED <<star, wasm, toml, sessvars, tttl>>
    /\ UNCHANGED <<cfgvars, stored, slot, lock, registry, count, nreq, rports,
                   tpc, reaps>>

\* while let Some(mut field) = multipart.next_field().await.map_err(..)?
\* match field.name() { Some("wasm") => .., Some("toml") => .., _ => continue }
\* and, when the stream has ended, wasm.ok_or_else(..)?, toml.ok_or_else(..)?
NextField(r) ==
    /\ pc[r] = "ingest"
    /\ field = "none"
    /\ \E it \in FieldItems :
          /\ item' = it
          /\ IF it.kind = "error"
             THEN /\ Reject(r, 306, "bad_request", {})
                  /\ UNCHANGED <<field, len, written, parts>>
             ELSE IF it.kind = "end"
             THEN /\ UNCHANGED <<len, written, parts>>
                  /\ IF wasm = <<>> THEN Reject(r, 373, "bad_request", {}) /\ UNCHANGED field
                     ELSE IF toml = <<>>
                     THEN Reject(r, 374, "bad_request", {}) /\ UNCHANGED field
                     ELSE field' = "end" /\ UNCHANGED <<pc, resp, ruser>>
             ELSE /\ Len(parts) < MaxParts
                  /\ parts' = Append(parts, [name |-> it.name, ctype |-> it.ctype])
                  /\ IF it.name = "other"
                     THEN UNCHANGED <<field, len, written, pc, resp, ruser>>
                     ELSE IF it.name = "wasm" /\ it.ctype # "application/wasm"
                     THEN /\ Reject(r, 311, "unsupported_media_type", {})
                          /\ UNCHANGED <<field, len, written>>
                     ELSE IF it.name = "wasm" /\ wasm # <<>>
                     THEN /\ Reject(r, 315, "bad_request", {})
                          /\ UNCHANGED <<field, len, written>>
                     ELSE IF it.name = "toml" /\ it.ctype # "none"
                     THEN /\ Reject(r, 341, "bad_request", {})
                          /\ UNCHANGED <<field, len, written>>
                     ELSE IF it.name = "toml" /\ toml # <<>>
                     THEN /\ Reject(r, 345, "bad_request", {})
                          /\ UNCHANGED <<field, len, written>>
                     ELSE /\ field' = it.name
                          /\ len' = 0
                          /\ written' = 0
                          /\ UNCHANGED <<pc, resp, ruser>>
    /\ UNCHANGED <<star, wasm, toml, sessvars, tttl>>
    /\ UNCHANGED <<cfgvars, stored, slot, lock, registry, count, nreq, rports,
                   tpc, reaps>>

\* while let Some(chunk) = field.chunk().await.map_err(..)? {
\*     len += chunk.len(); if len > limit { return Err(PAYLOAD_TOO_LARGE) }
\*     out.write_all(&chunk).map_err(..)? }   wasm = Some(out) / toml = Some(out)
\* write_all writes the chunk or fails (the staging file cannot be written).
Chunk(r) ==
    /\ pc[r] = "ingest"
    /\ field \in {"wasm", "toml"}
    /\ \E it \in ChunkItems :
          /\ item' = it
          /\ IF it.kind = "error"
             THEN /\ Reject(r, IF field = "wasm" THEN 325 ELSE 355, "bad_request", {})
                  /\ UNCHANGED <<field, wasm, toml, len, written>>
             ELSE IF it.kind = "eof"
             THEN /\ wasm' = IF field = "wasm" THEN <<written>> ELSE wasm
                  /\ toml' = IF field = "toml" THEN <<written>> ELSE toml
                  /\ field' = "none"
                  /\ UNCHANGED <<len, written, pc, resp, ruser>>
             ELSE /\ len' = len + it.size
                  /\ IF over_limit(len + it.size, limit_of(field))
                     THEN /\ Reject(r, IF field = "wasm" THEN 329 ELSE 359,
                                    "payload_too_large", {})
                          /\ UNCHANGED written
                     ELSE \/ /\ written' = written + it.size
                             /\ UNCHANGED <<pc, resp, ruser>>
                          \/ /\ Reject(r, IF field = "wasm" THEN 333 ELSE 363,
                                        "internal_server_error", {})
                             /\ UNCHANGED written
                  /\ UNCHANGED <<field, wasm, toml>>
    /\ UNCHANGED <<star, parts, sessvars, tttl>>
    /\ UNCHANGED <<cfgvars, stored, slot, lock, registry, count, nreq, rports,
                   tpc, reaps>>

\* tempfile::NamedTempFile::new() fails when the part is entered, before
\* its first chunk is asked for.
StageFail(r) ==
    /\ pc[r] = "ingest"
    /\ field \in {"wasm", "toml"}
    /\ item.kind = "part"
    /\ Reject(r, IF field = "wasm" THEN 320 ELSE 350, "internal_server_error", {})
    /\ UNCHANGED <<sessvars, upvars, tttl>>
    /\ UNCHANGED <<cfgvars, stored, slot, lock, registry, count, nreq, rports,
                   tpc, reaps>>

\* What reading and parsing the staged configuration can fail with:
\* read_to_string(&toml) (the file is not UTF-8, or cannot be read) and
\* ports::get_listen_ports(&enarx_config_string).
ParseFailures ==
    {Response(378, "internal_server_error", {}), Response(382, "bad_request", {})}

\* read_to_string(&toml).await.map_err(..)? or
\* ports::get_listen_ports(&enarx_config_string).map_err(..)? returns.
ParseFail(r) ==
    /\ pc[r] = "ingest"
    /\ field = "end"
    /\ \E o \in ParseFailures : Reject(r, o.line, o.status, o.ports)
    /\ UNCHANGED <<sessvars, upvars, tttl>>
    /\ UNCHANGED <<cfgvars, stored, slot, lock, registry, count, nreq, rports,
                   tpc, reaps>>

(* ---- root_post: the multipart loop as one step ---- *)

\* Every return of root_post between the pre-check and the port list, with
\* the status it answers.
IngestFailures ==
    {Response(l, "bad_request", {}) : l \in {306, 315, 325, 341, 345, 355, 373, 374, 382}}
        \cup {Response(311, "unsupported_media_type", {})}
        \cup {Response(l, "payload_too_large", {}) : l \in {329, 359}}
        \cup {Response(l, "internal_server_error", {}) : l \in {320, 333, 350, 363, 378}}

\* The multipart stream or the configuration is rejected: no port list.
IngestFail(r) ==
    /\ pc[r] = "ingest"
    /\ \E o \in IngestFailures : Reject(r, o.line, o.status, o.ports)
    /\ UNCHANGED <<sessvars, upvars, tttl>>
    /\ UNCHANGED <<cfgvars, stored, slot, lock, registry, count, nreq, rports,
                   tpc, reaps>>

\* Variant of AdmitOutcome that ignores the outcome of try_reserve.
AdmitOutcomeIgnoringConflicts(ports) ==
    IF illegal_ports(ports) # {}
    THEN Response(393, "illegal_ports", illegal_ports(ports))
    ELSE Response(0, "admitted", {})

\* What root_post decides for a configuration declaring `ports`: the range
\* check, then, if shared_port_protections, ports::try_reserve(&ports).
AdmitOutcome(ports) ==
    IF illegal_ports(ports) # {}
    THEN Response(393, "illegal_ports", illegal_ports(ports))
    ELSE IF shared_port_protections /\ port_conflicts(ports) # {}
    THEN Response(400, "port_conflicts", port_conflicts(ports))
    ELSE Response(0, "admitted", {})

\* Variant of Admit that reserves the ports whatever shared_port_protections.
AdmitProtectAlways(r, ports) ==
    /\ pc[r] = "ingest"
    /\ IF illegal_ports(ports) # {}
       THEN /\ Reject(r, 393, "illegal_ports", illegal_ports(ports))
            /\ UNCHANGED <<rports, registry>>
       ELSE IF port_conflicts(ports) # {}
       THEN /\ Reject(r, 400, "port_conflicts", port_conflicts(ports))
            /\ UNCHANGED <<rports, registry>>
       ELSE /\ registry' = registry \cup ports
            /\ rports' = [rports EXCEPT ![r] = ports]
            /\ pc' = [pc EXCEPT ![r] = "wlock"]
            /\ UNCHANGED <<resp, ruser>>
    /\ UNCHANGED <<sessvars, upvars, tttl>>
    /\ UNCHANGED <<cfgvars, stored, slot, lock, count, nreq, tpc, reaps>>

\* The configuration declares `ports`: rejected, or the ports are reserved
\* and the request goes on to the committing section.
Admit(r, ports) ==
    /\ pc[r] = "ingest"
    /\ IF AdmitOutcome(ports).status # "admitted"
       THEN /\ Reject(r, AdmitOutcome(ports).line, AdmitOutcome(ports).status,
                      AdmitOutcome(ports).ports)
            /\ UNCHANGED <<rports, registry>>
       ELSE /\ registry' = IF shared_port_protections
                           THEN registry \cup ports ELSE registry
            /\ rports' = [rports EXCEPT ![r] = ports]
            /\ pc' = [pc EXCEPT ![r] = "wlock"]
            /\ UNCHANGED <<resp, ruser>>
    /\ UNCHANGED <<sessvars, upvars, tttl>>
    /\ UNCHANGED <<cfgvars, stored, slot, lock, count, nreq, tpc, reaps>>

Ingest(r) == \E ports \in PortSets : Admit(r, ports)

\* Variant of ReCheck without the re-check of the slot under the lock.
ReCheckCountOnly(r) ==
    /\ pc[r] = "wlock"
    /\ lock[ruser[r]] = None
    /\ IF count >= jobs
       THEN /\ Reject(r, 412, "too_many_workloads", {})
            /\ rports' = [rports EXCEPT ![r] = {}]
            /\ UNCHANGED lock
       ELSE /\ pc' = [pc EXCEPT ![r] = "spawn"]
            /\ lock' = [lock EXCEPT ![ruser[r]] = r]
            /\ UNCHANGED <<resp, rports, ruser>>
    /\ UNCHANGED <<sessvars, upvars, tttl>>
    /\ UNCHANGED <<cfgvars, stored, slot, registry, count, nreq, tpc, reaps>>

\* let mut lock = user.write().await; the committing re-check of the slot
\* and of Job::count() under the session's write lock.
ReCheck(r) ==
    /\ pc[r] = "wlock"
    /\ lock[ruser[r]] = None
    /\ IF slot[ruser[r]] # None
       THEN /\ Reject(r, 408, "redirect", {})
            /\ rports' = [rports EXCEPT ![r] = {}]
            /\ UNCHANGED lock
       ELSE IF count >= jobs
       THEN /\ Reject(r, 412, "too_many_workloads", {})
            /\ rports' = [rports EXCEPT ![r] = {}]
            /\ UNCHANGED lock
       ELSE /\ pc' = [pc EXCEPT ![r] = "spawn"]
            /\ lock' = [lock EXCEPT ![ruser[r]] = r]
            /\ UNCHANGED <<resp, rports, ruser>>
    /\ UNCHANGED <<sessvars, upvars, tttl>>
    /\ UNCHANGED <<cfgvars, stored, slot, registry, count, nreq, tpc, reaps>>

\* jobs::Job::new fails: the process could not be spawned.
SpawnFail(r) ==
    /\ pc[r] = "spawn"
    /\ Reject(r, 417, "internal_server_error", {})
    /\ lock' = [lock EXCEPT ![ruser[r]] = None]
    /\ rports' = [rports EXCEPT ![r] = {}]
    /\ UNCHANGED <<sessvars, upvars, tttl>>
    /\ UNCHANGED <<cfgvars, stored, slot, registry, count, nreq, tpc, reaps>>

\* jobs::Job::new succeeds; the Job is installed (lock.data = ..) and the
\* write guard is dropped at the end of the block.  The timeout task is not
\* spawned yet: the handler runs on without an await, but on the
\* multi-thread runtime another worker can take the lock from here on.
Spawn(r) ==
    /\ pc[r] = "spawn"
    /\ count' = count + 1
    /\ slot' = [slot EXCEPT ![ruser[r]] = r]
    /\ lock' = [lock EXCEPT ![ruser[r]] = None]
    /\ pc' = [pc EXCEPT ![r] = "arm"]
    /\ UNCHANGED <<sessvars, upvars, tttl>>
    /\ UNCHANGED <<cfgvars, stored, registry, nreq, ruser, rports, tpc, resp, reaps>>

\* Variant of Arm that goes on without spawning the timeout task.
ArmSkipped(r) ==
    /\ pc[r] = "arm"
    /\ IF log_info
       THEN pc' = [pc EXCEPT ![r] = "log"] /\ UNCHANGED <<resp, ruser>>
       ELSE /\ pc' = [pc EXCEPT ![r] = "done"]
            /\ resp' = Response(443, "see_other", {})
            /\ ruser' = [ruser EXCEPT ![r] = None]
    /\ UNCHANGED <<sessvars, upvars, tttl>>
    /\ UNCHANGED <<cfgvars, stored, slot, lock, registry, count, nreq, rports,
                   tpc, reaps>>

\* let weak = Ref::downgrade(&user); tokio::spawn(async move { sleep(ttl) .. })
\* With the info! event disabled its arguments are not evaluated and the
\* response follows at once; with it enabled the handler goes on to
\* user.read().await.
Arm(r) ==
    /\ pc[r] = "arm"
    /\ tpc' = [tpc EXCEPT ![r] = "sleeping"]
    /\ tttl' = [tttl EXCEPT ![r] = decide(star).ttl]
    /\ IF log_info
       THEN pc' = [pc EXCEPT ![r] = "log"] /\ UNCHANGED resp
       ELSE /\ pc' = [pc EXCEPT ![r] = "done"]
            /\ resp' = Response(443, "see_other", {})
    /\ UNCHANGED <<sessvars, upvars>>
    /\ UNCHANGED <<cfgvars, stored, slot, lock, registry, count, nreq, ruser,
                   rports, reaps>>

\* info!("job started. ..", user.read().await.uid): the handler takes the
\* session lock for reading, which waits for a writer, then answers
\* Ok((StatusCode::SEE_OTHER, ..)) and drops its strong Ref.
JobStarted(r) ==
    /\ pc[r] = "log"
    /\ lock[ruser[r]] = None
    /\ pc' = [pc EXCEPT ![r] = "done"]
    /\ resp' = Response(443, "see_other", {})
    /\ ruser' = [ruser EXCEPT ![r] = IF TaskPending(r) THEN @ ELSE None]
    /\ UNCHANGED <<sessvars, upvars, tttl>>
    /\ UNCHANGED <<cfgvars, stored, slot, lock, registry, count, nreq, rports,
                   tpc, reaps>>

\* The client goes away while the handler is suspended at an await point:
\* the handler's future is dropped where it stands.  Dropped at the
\* user.read().await of the info! event, it leaves the Job it installed, with
\* its ports and its timeout task, and sends no response.
Abandon(r) ==
    /\ pc[r] \in {"ingest", "wlock", "log"}
    /\ pc' = [pc EXCEPT ![r] = "done"]
    /\ ruser' = [ruser EXCEPT ![r] = IF pc[r] = "log" /\ TaskPending(r)
                                      THEN @ ELSE None]
    /\ rports' = [rports EXCEPT ![r] = IF pc[r] = "log" THEN @ ELSE {}]
    /\ resp' = Response(0, "abandoned", {})
    /\ UNCHANGED <<sessvars, upvars, tttl>>
    /\ UNCHANGED <<cfgvars, stored, slot, lock, registry, count, nreq, tpc, reaps>>

(* ---- the timeout task spawned by root_post ---- *)

\* Variant of TimeoutUpgrade in which the task holds a strong Ref: the
\* upgrade never fails.
TimeoutUpgradeStrong(r) ==
    /\ tpc[r] = "sleeping"
    /\ tpc' = [tpc EXCEPT ![r] = "upgraded"]
    /\ UNCHANGED <<sessvars, upvars, tttl>>
    /\ UNCHANGED <<cfgvars, stored, slot, lock, registry, count, nreq, pc, ruser,
                   rports, resp, reaps>>

\* sleep(ttl) is over; weak.upgrade()
TimeoutUpgrade(r) ==
    /\ tpc[r] = "sleeping"
    /\ IF Strong(ruser[r]) > 0
       THEN tpc' = [tpc EXCEPT ![r] = "upgraded"] /\ UNCHANGED ruser
       ELSE /\ tpc' = [tpc EXCEPT ![r] = "gone"]
            /\ ruser' = [ruser EXCEPT ![r] = None]
    /\ UNCHANGED <<sessvars, upvars, tttl>>
    /\ UNCHANGED <<cfgvars, stored, slot, lock, registry, count, nreq, pc,
                   rports, resp, reaps>>

\* Variant of TimeoutReap without the comparison of identifiers: it kills
\* whatever Job the slot holds.
TimeoutReapAnyJob(r) ==
    /\ tpc[r] = "upgraded"
    /\ lock[ruser[r]] = None
    /\ kill_job(ruser[r])
    /\ tpc' = [tpc EXCEPT ![r] = "killed"]
    /\ ruser' = [ruser EXCEPT ![r] = IF pc[r] = "log" THEN @ ELSE None]
    /\ UNCHANGED <<sessvars, upvars, tttl>>
    /\ UNCHANGED <<cfgvars, stored, lock, nreq, pc, resp>>

\* Variant of TimeoutReap with the comparison inverted: it never kills the
\* Job it was armed for.
TimeoutReapNever(r) ==
    /\ tpc[r] = "upgraded"
    /\ lock[ruser[r]] = None
    /\ IF slot[ruser[r]] # r
       THEN kill_job(ruser[r]) /\ tpc' = [tpc EXCEPT ![r] = "killed"]
       ELSE /\ UNCHANGED <<slot, registry, count, rports, reaps>>
            /\ tpc' = [tpc EXCEPT ![r] = "stale"]
    /\ ruser' = [ruser EXCEPT ![r] = IF pc[r] = "log" THEN @ ELSE None]
    /\ UNCHANGED <<sessvars, upvars, tttl>>
    /\ UNCHANGED <<cfgvars, stored, lock, nreq, pc, resp>>

\* Variant of TimeoutReap that kills the Job it captured when it was armed,
\* whether or not the slot still holds it.
TimeoutReapCaptured(r) ==
    /\ tpc[r] = "upgraded"
    /\ lock[ruser[r]] = None
    /\ slot' = [slot EXCEPT ![ruser[r]] = IF @ = r THEN None ELSE @]
    /\ registry' = registry \ rports[r]
    /\ count' = count - 1
    /\ rports' = [rports EXCEPT ![r] = {}]
    /\ reaps' = [reaps EXCEPT ![r] = @ + 1]
    /\ tpc' = [tpc EXCEPT ![r] = "killed"]
    /\ ruser' = [ruser EXCEPT ![r] = IF pc[r] = "log" THEN @ ELSE None]
    /\ UNCHANGED <<sessvars, upvars, tttl>>
    /\ UNCHANGED <<cfgvars, stored, lock, nreq, pc, resp>>

\* let mut lock = user.write().await;
\* if lock.data.job().as_ref().map(|j| j.uuid) == Some(uuid) { kill_job }
TimeoutReap(r) ==
    /\ tpc[r] = "upgraded"
    /\ lock[ruser[r]] = None
    /\ IF slot[ruser[r]] = r
       THEN kill_job(ruser[r]) /\ tpc' = [tpc EXCEPT ![r] = "killed"]
       ELSE /\ UNCHANGED <<slot, registry, count, rports, reaps>>
            /\ tpc' = [tpc EXCEPT ![r] = "stale"]
    /\ ruser' = [ruser EXCEPT ![r] = IF pc[r] = "log" THEN @ ELSE None]
    /\ UNCHANGED <<sessvars, upvars, tttl>>
    /\ UNCHANGED <<cfgvars, stored, lock, nreq, pc, resp>>

(* ---- root_delete ---- *)

\* Variant of Delete that does not wait for the session's write lock.
DeleteUnlocked(u) ==
    /\ stored[u]
    /\ kill_job(u)
    /\ resp' = Response(454, "ok", {})
    /\ UNCHANGED <<sessvars, upvars, tttl>>
    /\ UNCHANGED <<cfgvars, stored, lock, nreq, pc, ruser, tpc>>

\* Variant of Delete without the `if let Some(uuid)` guard: it releases a
\* Job's share of the count whether or not the slot holds one.
DeleteUnguarded(u) ==
    /\ stored[u]
    /\ lock[u] = None
    /\ IF slot[u] = None
       THEN /\ count' = IF count > 0 THEN count - 1 ELSE count
            /\ UNCHANGED <<slot, registry, rports, reaps>>
       ELSE kill_job(u)
    /\ resp' = Response(454, "ok", {})
    /\ UNCHANGED <<sessvars, upvars, tttl>>
    /\ UNCHANGED <<cfgvars, stored, lock, nreq, pc, ruser, tpc>>

\* let mut lock = user.write().await;
\* if let Some(uuid) = .. { lock.data.kill_job().await }  StatusCode::OK
Delete(u) ==
    /\ stored[u]
    /\ lock[u] = None
    /\ kill_job(u)
    /\ resp' = Response(454, "ok", {})
    /\ UNCHANGED <<sessvars, upvars, tttl>>
    /\ UNCHANGED <<cfgvars, stored, lock, nreq, pc, ruser, tpc>>

(* ---- reader (POST /out, POST /err) ---- *)

\* Job::read within READ_TIMEOUT, as timeout(READ_TIMEOUT, future).await sees
\* it: the deadline elapsed, the read failed, or n bytes were read (n = 0 at
\* the end of the stream).
ReadOutcomes(j) ==
    {Item("elapsed", "none", "none", 0), Item("failed", "none", "none", 0)}
        \cup {Item("ok", "none", "none", n) : n \in 0..BufCap}

\* buf after Job::read read n bytes: byte i of the stream has the value i.
buf_after(j, n) == [i \in 1..BufCap |-> IF i <= n THEN cursor[j] + i ELSE 0]

\* Variant of reader_result that reports an elapsed deadline as an error.
reader_result_deadline_is_error(o, buf) ==
    IF o.kind = "ok" THEN Read("ok", "ok", SubSeq(buf, 1, o.size))
    ELSE Read(o.kind, "internal_server_error", <<>>)

\* match timeout(READ_TIMEOUT, future).await { Ok(Err(..)) => Err(500),
\*     Ok(Ok(size)) => Ok(buf[..size].to_vec()), Err(..) => Ok(Vec::new()) }
reader_result(o, buf) ==
    IF o.kind = "failed" THEN Read("failed", "internal_server_error", <<>>)
    ELSE IF o.kind = "ok" THEN Read("ok", "ok", SubSeq(buf, 1, o.size))
    ELSE Read("elapsed", "ok", <<>>)

\* match user.write().await.data.job_mut() { None => Err(NOT_FOUND), Some(job) => ..
\* The write guard is a temporary of the match: it is held until the match ends.
ReaderStart(u) ==
    /\ stored[u]
    /\ lock[u] = None
    /\ IF slot[u] = None
       THEN rd' = Read("none", "not_found", <<>>) /\ UNCHANGED lock
       ELSE lock' = [lock EXCEPT ![u] = Reader] /\ UNCHANGED rd
    /\ UNCHANGED <<exited, cursor, upvars, tttl>>
    /\ UNCHANGED <<cfgvars, stored, slot, registry, count, nreq, pc, ruser, rports,
                   tpc, resp, reaps>>

\* The read ends within the deadline or the deadline elapses; the guard is dropped.
ReaderEnd(u) ==
    /\ lock[u] = Reader
    /\ \E o \in ReadOutcomes(slot[u]) :
          /\ cursor[slot[u]] + o.size <= MaxOut
          /\ rd' = reader_result(o, buf_after(slot[u], o.size))
          /\ cursor' = [cursor EXCEPT ![slot[u]] = @ + o.size]
    /\ lock' = [lock EXCEPT ![u] = None]
    /\ UNCHANGED <<exited, upvars, tttl>>
    /\ UNCHANGED <<cfgvars, stored, slot, registry, count, nreq, pc, ruser, rports,
                   tpc, resp, reaps>>

\* The client goes away during the read: the future and its guard are dropped.
ReaderAbandon(u) ==
    /\ lock[u] = Reader
    /\ rd' = Read("dropped", "none", <<>>)
    /\ lock' = [lock EXCEPT ![u] = None]
    /\ UNCHANGED <<exited, cursor, upvars, tttl>>
    /\ UNCHANGED <<cfgvars, stored, slot, registry, count, nreq, pc, ruser, rports,
                   tpc, resp, reaps>>

(* ---- the child process ---- *)

\* The child process of a Job ends on its own.
ProcessExit(j) ==
    /\ \E u \in Users : slot[u] = j
    /\ ~exited[j]
    /\ exited' = [exited EXCEPT ![j] = TRUE]
    /\ UNCHANGED <<cursor, rd, upvars, tttl>>
    /\ UNCHANGED <<cfgvars, stored, slot, lock, registry, count, nreq, pc, ruser,
                   rports, tpc, resp, reaps>>

(* ---- the surrounding session layer ---- *)

\* The session layer lets go of the last strong Ref (expiry, logout): the
\* session and the Job it holds are destroyed.
SessionExpire(u) ==
    /\ stored[u]
    /\ Strong(u) = 1   \* no handler or upgraded timeout task shares the session
    /\ stored' = [stored EXCEPT ![u] = FALSE]
    /\ kill_job(u)
    /\ UNCHANGED <<sessvars, upvars, tttl>>
    /\ UNCHANGED <<cfgvars, lock, nreq, pc, ruser, tpc, resp>>

Next ==
    \/ \E u \in Users : Start(u)
    \/ \E r \in Reqs : PreCheckCount(r)
    \/ \E r \in Reqs : IngestFail(r)
    \/ \E r \in Reqs : Ingest(r)
    \/ \E r \in Reqs : ReCheck(r)
    \/ \E r \in Reqs : SpawnFail(r)
    \/ \E r \in Reqs : Spawn(r)
    \/ \E r \in Reqs : Arm(r)
    \/ \E r \in Reqs : JobStarted(r)
    \/ \E r \in Reqs : Abandon(r)
    \/ \E r \in Reqs : TimeoutUpgrade(r)
    \/ \E r \in Reqs : TimeoutReap(r)
    \/ \E u \in Users : Delete(u)
    \/ \E u \in Users : SessionExpire(u)

Spec == Init /\ [][Next]_vars

(* ---- fair scheduling: the runtime polls a ready task, a handler that
   holds the lock runs on, and the session lock is granted in FIFO order ---- *)

FairInit == Init /\ jobs = MaxJobs /\ shared_port_protections

Fairness ==
    \A r \in Reqs :
        /\ WF_vars(TimeoutUpgrade(r))
        /\ SF_vars(TimeoutReap(r))
        /\ WF_vars(Spawn(r) \/ SpawnFail(r) \/ Arm(r))

FairSpec == FairInit /\ [][Next]_vars /\ Fairness

(* ---- one session in detail: its create requests, output reads, deletes,
   timeout tasks and the exit of its Jobs' processes ---- *)

SessionInit == Init /\ jobs = MaxJobs /\ shared_port_protections

SessionNext ==
    \/ Start(1)
    \/ \E r \in Reqs : PreCheckCount(r)
    \/ \E r \in Reqs : IngestFail(r)
    \/ \E r \in Reqs : Admit(r, {port_min})
    \/ \E r \in Reqs : ReCheck(r)
    \/ \E r \in Reqs : SpawnFail(r)
    \/ \E r \in Reqs : Spawn(r)
    \/ \E r \in Reqs : Arm(r)
    \/ \E r \in Reqs : JobStarted(r)
    \/ \E r \in Reqs : Abandon(r)
    \/ \E r \in Reqs : TimeoutUpgrade(r)
    \/ \E r \in Reqs : TimeoutReap(r)
    \/ Delete(1)
    \/ SessionExpire(1)
    \/ ReaderStart(1)
    \/ ReaderEnd(1)
    \/ ReaderAbandon(1)
    \/ \E j \in Reqs : ProcessExit(j)

SessionSpec == SessionInit /\ [][SessionNext]_vars

(* ---- one create request in detail: its quota tier, the parts and the
   chunks of its upload, then its admission ---- *)

UploadInit == Init /\ jobs = MaxJobs /\ shared_port_protections

UploadNext ==
    \/ \E s \in BOOLEAN : nreq = 0 /\ StartAs(1, s)
    \/ PreCheckCount(1)
    \/ NextField(1)
    \/ Chunk(1)
    \/ StageFail(1)
    \/ ParseFail(1)
    \/ field = "end" /\ Ingest(1)
    \/ ReCheck(1)
    \/ SpawnFail(1)
    \/ Spawn(1)
    \/ Arm(1)
    \/ JobStarted(1)
    \/ Abandon(1)

UploadSpec == UploadInit /\ [][UploadNext]_vars

(* ---- helpers of the properties ---- *)

Live(j) == \E u \in Users : slot[u] = j
Installed(j) == pc[j] = "arm" \/ tpc[j] # "none"
Holding(r) == Live(r) \/ pc[r] \in {"wlock", "spawn"}
OutOfRange(ports) == {p \in ports : p < port_min \/ p > port_max}

\* The declarations with at least one port outside [port_min, port_max].
OutOfRangeSets == {P \in PortSets : OutOfRange(P) # {}}

\* The decided size limit of the workload, in bytes.
WasmLimit == (IF star THEN size_limit_starred ELSE size_limit_default) * MiB

\* How many of the delivered parts had the name n.
PartCount(n) == Cardinality({i \in 1..Len(parts) : parts[i].name = n})

TypeOK ==
    /\ jobs \in 1..MaxJobs
    /\ shared_port_protections \in BOOLEAN
    /\ log_info \in BOOLEAN
    /\ nsess \in 0..NUsers
    /\ slot \in [Users -> {None} \cup Reqs]
    /\ lock \in [Users -> {None, Reader} \cup Reqs]
    /\ registry \subseteq Ports
    /\ count \in 0..MaxReq
    /\ nreq \in 0..MaxReq

(* ---- the claims ---- *)

\* C1: the number of simultaneously live Jobs never exceeds the configured
\* ceiling: no reachable state has Job::count() > jobs.
C1_CeilingRespected == count <= jobs

\* C2: a session's Job is never overwritten or replaced by a create request:
\* the slot goes empty -> occupied only in the committing section of the
\* request that holds the session's write lock, a request that reaches that
\* section while the slot is occupied never proceeds to spawn, and every Job
\* that was installed and not reaped is still in a slot.
C2_OneJobPerSession ==
    /\ [](\A j \in Reqs : (Installed(j) /\ reaps[j] = 0) => Live(j))
    /\ [][\A u \in Users :
            /\ slot[u] # None => slot'[u] \in {slot[u], None}
            /\ (slot[u] = None /\ slot'[u] # None)
                   => (lock[u] = slot'[u] /\ pc[slot'[u]] = "spawn")
            /\ \A r \in Reqs :
                   (pc[r] = "wlock" /\ ruser[r] = u /\ slot[u] # None)
                       => pc'[r] \in {"wlock", "done"}]_vars

C2_Witness ==
    /\ resp.line = 408
    /\ \E u \in Users : slot[u] # None /\ reaps[slot[u]] = 0

\* C3: with shared-port protection enabled, the port sets of any two
\* requests that hold ports (live Jobs and requests past try_reserve) are
\* disjoint; a configuration whose ports meet the registry is answered with
\* a port-conflict naming exactly those ports, and that rejection reserves
\* nothing and spawns nothing.
C3_DisjointPorts ==
    /\ [](shared_port_protections =>
            /\ \A r1, r2 \in Reqs :
                   (r1 # r2 /\ Holding(r1) /\ Holding(r2))
                       => rports[r1] \cap rports[r2] = {}
            /\ \A r \in Reqs : pc[r] = "ingest" =>
                   \A P \in PortSets :
                       (illegal_ports(P) = {} /\ P \cap registry # {})
                           => AdmitOutcome(P)
                                  = Response(400, "port_conflicts", P \cap registry))
    /\ [][\A r \in Reqs :
            (pc[r] = "ingest" /\ pc'[r] = "done" /\ resp'.status = "port_conflicts")
                => UNCHANGED <<registry, slot, count, tpc, rports>>]_vars

C3_Witness ==
    /\ shared_port_protections
    /\ resp.status = "port_conflicts"
    /\ \E u \in Users : slot[u] # None /\ resp.ports \cap rports[slot[u]] # {}
    /\ nsess = 2

\* C4: a timeout task that fires when the slot no longer holds the Job it
\* was armed for (empty, or a newer Job) changes nothing: the newer Job stays
\* installed and running.
C4_StaleTimeoutSparesNewerJob ==
    [][\A r \in Reqs :
         (tpc[r] = "upgraded" /\ tpc'[r] # "upgraded" /\ slot[ruser[r]] # r)
             => /\ tpc'[r] = "stale"
                /\ UNCHANGED <<slot, lock, registry, count, reaps, rports>>]_vars

C4_Witness ==
    /\ nsess = 1
    /\ tpc[1] = "stale"
    /\ reaps[1] = 1
    /\ slot[1] = 2
    /\ reaps[2] = 0

\* C5: a timeout task that fires when no strong holder of the session is
\* left ends at the failed upgrade: it takes no lock, kills nothing and
\* changes no state.
C5_DeadSessionTimeoutIsNoop ==
    [][\A r \in Reqs :
         (tpc[r] = "sleeping" /\ tpc'[r] # "sleeping" /\ Strong(ruser[r]) = 0)
             => /\ tpc'[r] = "gone"
                /\ UNCHANGED <<stored, slot, lock, registry, count, reaps,
                               rports, resp, pc>>]_vars

C5_Witness ==
    \E r \in Reqs : tpc[r] = "gone" /\ reaps[r] = 1 /\ ~stored[1]

\* C6: a create request rejected after its try_reserve succeeded (slot
\* occupied at the re-check, ceiling reached at the re-check, spawn failure)
\* leaves none of its ports in the Port Registry.
C6_RejectionReleasesPorts ==
    [][\A r \in Reqs :
         (pc[r] \in {"wlock", "spawn"} /\ pc'[r] = "done"
              /\ resp'.line \in {408, 412, 417})
             => rports[r] \cap registry' = {}]_vars

\* C7: the range check is inclusive at both ends: a port is reported illegal
\* only when it is below port_min or above port_max.
C7_InclusiveRange ==
    resp.status = "illegal_ports"
        => \A p \in resp.ports : p < port_min \/ p > port_max

\* C8: a request whose configuration declares a port outside
\* [port_min, port_max] is answered with an illegal-ports rejection that
\* lists every such port; no request holding ports declares one; and the
\* rejection comes before try_reserve: registry, count and slot are
\* unchanged by it.
C8_IllegalPortsAllReported ==
    /\ [](\A r \in Reqs : pc[r] = "ingest" =>
            \A P \in OutOfRangeSets :
                LET out == AdmitOutcome(P)
                IN  /\ out.status = "illegal_ports"
                    /\ OutOfRange(P) \subseteq out.ports
                    /\ out.ports \subseteq P)
    /\ [](\A r \in Reqs : Holding(r) => OutOfRange(rports[r]) = {})
    /\ [][\A r \in Reqs :
            (pc[r] = "ingest" /\ pc'[r] = "done" /\ resp'.status = "illegal_ports")
                => UNCHANGED <<registry, count, slot, lock, rports, tpc>>]_vars

C8_Witness ==
    /\ resp.status = "illegal_ports"
    /\ Cardinality(OutOfRange(resp.ports)) >= 2
    /\ \E u \in Users : slot[u] # None /\ rports[slot[u]] # {}

\* C9: under fair scheduling, a Job whose timeout task is armed is eventually
\* reaped unless the session lost every strong holder before the task fired,
\* and the step that reaps a Job leaves none of its ports in the registry.
C9_TimeoutEventuallyReaps ==
    /\ \A r \in Reqs :
           (tpc[r] = "sleeping") ~> (reaps[r] = 1 \/ tpc[r] = "gone")
    /\ [][\A r \in Reqs :
            (reaps[r] = 0 /\ reaps'[r] = 1)
                => (rports[r] \cap registry' = {} /\ ~Live(r)')]_vars

\* Job 1 was killed by its timeout task and every legal port is now held by
\* a request of another session.
C9_Witness ==
    /\ tpc[1] = "killed"
    /\ reaps[1] = 1
    /\ slot[1] = None
    /\ pc[2] = "wlock"
    /\ ruser[2] = 2
    /\ rports[2] = {p \in Ports : port_range_contains(p)}
    /\ registry = rports[2]

\* C10: a Job is reaped exactly once however root_delete and its timeout
\* task interleave: its count is decremented once, a task that reports a
\* kill did reap its Job, and Job::count() equals the number of Jobs that
\* were spawned (installed: the request is past Spawn) and not yet reaped.
C10_ReapedExactlyOnce ==
    /\ \A j \in Reqs : reaps[j] <= 1
    /\ \A j \in Reqs : tpc[j] = "killed" => reaps[j] = 1
    /\ count = Cardinality({j \in Reqs : Installed(j) /\ reaps[j] = 0})

C10_Witness ==
    /\ nreq = 1
    /\ tpc[1] = "stale"
    /\ reaps[1] = 1
    /\ stored[1]
    /\ count = 0

\* C11: an output read on a session with a live Job never turns an elapsed
\* read deadline into an error: when the deadline elapses the result is
\* success with no bytes, the result is an error exactly when the read itself
\* failed, a read that completes returns exactly the bytes it consumed from
\* the stream, and in none of these cases is the Job taken out of the slot.
C11_ReadDeadlineIsNotAnError ==
    [][\A u \in Users :
         (lock[u] = Reader /\ lock'[u] = None /\ rd'.outcome # "dropped")
             => /\ slot'[u] = slot[u]
                /\ UNCHANGED <<count, registry, reaps, exited>>
                /\ rd'.outcome \in {"elapsed", "failed", "ok"}
                /\ rd'.outcome = "elapsed" => (rd'.status = "ok" /\ rd'.bytes = <<>>)
                /\ rd'.status = "internal_server_error" <=> rd'.outcome = "failed"
                /\ rd'.outcome = "ok"
                       => /\ rd'.status = "ok"
                          /\ rd'.bytes
                                 = [i \in 1..(cursor'[slot[u]] - cursor[slot[u]])
                                        |-> cursor[slot[u]] + i]]_vars

\* A read met the deadline with nothing new after an earlier read had
\* returned bytes, and the Job is still installed.
C11_Witness ==
    /\ rd = Read("elapsed", "ok", <<>>)
    /\ lock[1] = None
    /\ slot[1] # None
    /\ cursor[slot[1]] > 0

\* C12: root_delete is idempotent: on a session with a Job it kills the Job
\* and clears the slot (the count drops by one, the Job's ports leave the
\* registry, no other session is touched); on a session with no Job it
\* changes no state; in both cases it reports success and leaves the slot
\* empty, so a further delete finds no Job and changes nothing.
C12_DeleteIdempotent ==
    [][\A u \in Users :
         Delete(u)
             => /\ slot'[u] = None
                /\ resp' = Response(454, "ok", {})
                /\ \A v \in Users \ {u} : slot'[v] = slot[v]
                /\ slot[u] = None
                       => UNCHANGED <<slot, registry, count, reaps, rports, tpc,
                                      lock, stored>>
                /\ slot[u] # None
                       => /\ count' = count - 1
                          /\ reaps'[slot[u]] = reaps[slot[u]] + 1
                          /\ registry' = registry \ rports[slot[u]]]_vars

\* Job 1 was killed by a delete (its timeout task still sleeps, its session
\* still exists) while another session's Job runs on.
C12_Witness ==
    /\ resp = Response(454, "ok", {})
    /\ stored[1]
    /\ slot[1] = None
    /\ tpc[1] = "sleeping"
    /\ reaps[1] = 1
    /\ slot[2] = 2
    /\ count = 1

\* C13: the size limit of the workload is enforced chunk by chunk: a chunk
\* that takes the cumulative length over size MiB of the caller's tier ends
\* the request with payload-too-large and is not written to staging, a chunk
\* that keeps it at or under the limit passes the check (it is written and
\* the request goes on, unless the write to the staging file itself fails),
\* and no staged workload ever exceeds the limit.
C13_SizeLimitIncremental ==
    /\ [](/\ (field = "wasm" => written <= WasmLimit)
          /\ (wasm # <<>> => wasm[1] <= WasmLimit))
    /\ [][(field = "wasm" /\ len' # len)
              => /\ item'.kind = "chunk"
                 /\ len' = len + item'.size
                 /\ IF len + item'.size > WasmLimit
                    THEN /\ resp' = Response(329, "payload_too_large", {})
                         /\ pc'[1] = "done"
                         /\ UNCHANGED <<written, wasm, field>>
                    ELSE /\ resp'.status # "payload_too_large"
                         /\ \/ /\ written' = written + item'.size
                               /\ written' = len'
                               /\ pc'[1] = "ingest"
                               /\ UNCHANGED <<resp, wasm, field>>
                            \/ /\ resp' = Response(333, "internal_server_error", {})
                               /\ pc'[1] = "done"
                               /\ UNCHANGED <<written, wasm, field>>]_vars

\* A starred user's workload of exactly the limit, sent in more than one
\* chunk, was staged and the upload validated.
C13_Witness ==
    /\ star
    /\ wasm = <<WasmLimit>>
    /\ WasmLimit > MaxChunk
    /\ field = "end"

\* C14: admission is reached only after the upload delivered exactly one
\* valid workload part and exactly one valid configuration part: a second
\* "wasm" or "toml" part, a wrong content type, an over-size part or a part
\* missing at the end of the stream ends the request with a rejection; no
\* step of the upload changes the registry, the count or a slot; and a part
\* with any other name changes nothing but the stream position.
C14_AdmissionAfterValidUpload ==
    /\ [](\A r \in Reqs :
            (pc[r] \in {"wlock", "spawn", "arm", "log"} \/ tpc[r] # "none"
                 \/ rports[r] # {}
                 \/ resp.line \in {393, 400, 408, 412, 417, 443})
                => field = "end")
    /\ [](field = "end"
            => /\ PartCount("wasm") = 1
               /\ PartCount("toml") = 1
               /\ \A i \in 1..Len(parts) :
                      /\ parts[i].name = "wasm" => parts[i].ctype = "application/wasm"
                      /\ parts[i].name = "toml" => parts[i].ctype = "none"
               /\ wasm # <<>> /\ wasm[1] <= WasmLimit
               /\ toml # <<>> /\ toml[1] <= TOML_MAX)
    /\ []((PartCount("wasm") > 1 \/ PartCount("toml") > 1)
            => (pc[1] = "done" /\ resp.line \in {311, 315, 341, 345}))
    /\ []((\E i \in 1..Len(parts) :
               \/ parts[i].name = "wasm" /\ parts[i].ctype # "application/wasm"
               \/ parts[i].name = "toml" /\ parts[i].ctype # "none")
            => (pc[1] = "done" /\ resp.line \in {311, 341}))
    /\ []((field = "wasm" /\ len > WasmLimit)
            => (pc[1] = "done" /\ resp.line = 329))
    /\ []((field = "toml" /\ len > TOML_MAX)
            => (pc[1] = "done" /\ resp.line = 359))
    /\ []((item.kind = "end" /\ (wasm = <<>> \/ toml = <<>>))
            => (pc[1] = "done" /\ resp.line \in {373, 374}))
    /\ [][(pc[1] = "ingest" /\ field # "end")
              => UNCHANGED <<registry, count, slot, lock, rports, tpc>>]_vars
    /\ [][(parts' # parts /\ item'.name = "other")
              => UNCHANGED <<pc, resp, ruser, field, wasm, toml, len, written,
                             registry, count, slot, lock, rports, tpc>>]_vars

\* A Job was installed after an upload of three parts, one of them with
\* another name, skipped between the workload and the configuration.
C14_Witness ==
    /\ slot[1] = 1
    /\ Len(parts) = 3
    /\ parts[2].name = "other"
    /\ wasm # <<>>
    /\ toml # <<>>

\* C15: with shared-port protection enabled, a port is in the Port Registry
\* if and only if a live Job, or a request between its try_reserve and the
\* end of its committing section, holds it.
C15_RegistryIffLive ==
    shared_port_protections
        => registry = UNION {rports[r] : r \in {q \in Reqs : Holding(q)}}

\* C16: a session's slot holds a Job only while the Job's process is live,
\* and the operations that touch a Job whose process has exited (an output
\* read, the slot check of a create request) clear the slot, so that a
\* create request after a natural exit is not turned away for an occupied
\* slot.
C16_SlotOnlyWhileLive ==
    /\ [](\A u \in Users : slot[u] # None => ~exited[slot[u]])
    /\ [][\A u \in Users :
            (slot[u] # None /\ exited[slot[u]]
                 /\ \/ Start(u)
                    \/ lock[u] = Reader /\ lock'[u] = None /\ rd'.outcome # "dropped")
                => slot'[u] = None]_vars

\* C17: within one session the installation of a Job, an output read, a
\* delete and a timeout reap are ordered by the session's write lock: the
\* lock is never taken from its holder; while a read holds it the Job stays
\* in the slot, is not reaped and no Job is installed; while an installing
\* request holds it only that request changes the slot and no read consumes
\* output; and a timeout task that kills has found its own Job in the slot
\* in the same step.
C17_SessionLockOrdersJobAccess ==
    [][\A u \in Users :
         /\ (lock[u] # None /\ lock'[u] # None) => lock'[u] = lock[u]
         /\ lock[u] = Reader
                => /\ slot[u] # None
                   /\ slot'[u] = slot[u]
                   /\ reaps'[slot[u]] = reaps[slot[u]]
                   /\ UNCHANGED <<count, registry>>
         /\ lock[u] \in Reqs
                => /\ slot'[u] \in {slot[u], lock[u]}
                   /\ UNCHANGED <<cursor, reaps>>
         /\ \A r \in Reqs :
                (ruser[r] = u /\ tpc[r] = "upgraded" /\ tpc'[r] = "killed")
                    => /\ lock[u] = None
                       /\ slot[u] = r
                       /\ slot'[u] = None
                       /\ reaps'[r] = reaps[r] + 1]_vars

\* An output read holds the lock while the timeout task of the Job it reads
\* has upgraded its Ref and waits for the lock.
C17_Witness ==
    /\ lock[1] = Reader
    /\ slot[1] # None
    /\ tpc[slot[1]] = "upgraded"

\* C18: admission has two phases in this order.  The pre-check (slot empty,
\* Job::count() below the ceiling) is passed before the upload is streamed,
\* a port parsed or reserved or a process spawned, and a request that fails
\* it ends with no state changed.  The same two checks are passed again
\* under the session's write lock on the way to the spawn, and from there
\* to the installation the request keeps the lock, the slot stays empty and
\* the request's next step is the spawn itself.
C18_TwoPhaseAdmission ==
    /\ [](\A r \in Reqs :
            /\ pc[r] \in {"idle", "pre_count"}
                   => (rports[r] = {} /\ tpc[r] = "none" /\ reaps[r] = 0
                       /\ \A u \in Users : lock[u] # r /\ slot[u] # r)
            /\ pc[r] = "spawn"
                   => (lock[ruser[r]] = r /\ slot[ruser[r]] = None))
    /\ [][\A r \in Reqs :
            /\ (pc[r] = "idle" /\ pc'[r] = "pre_count") => slot[ruser'[r]] = None
            /\ (pc[r] # "ingest" /\ pc'[r] = "ingest")
                   => (pc[r] = "pre_count" /\ count < jobs)
            /\ (pc[r] \in {"idle", "pre_count"} /\ pc'[r] = "done")
                   => /\ resp'.line = IF pc[r] = "idle" THEN 293 ELSE 297
                      /\ pc[r] = "idle" => \E u \in Users : slot[u] # None
                      /\ pc[r] = "pre_count" => count >= jobs
                      /\ UNCHANGED <<slot, lock, registry, count, rports, tpc, reaps>>
            /\ (pc[r] # "spawn" /\ pc'[r] = "spawn")
                   => /\ pc[r] = "wlock"
                      /\ lock[ruser[r]] = None
                      /\ lock'[ruser[r]] = r
                      /\ slot[ruser[r]] = None
                      /\ count < jobs
            /\ (pc[r] = "spawn" /\ pc'[r] # "spawn")
                   => \/ slot'[ruser[r]] = r /\ pc'[r] = "arm" /\ count' = count + 1
                      \/ resp'.line = 417 /\ UNCHANGED <<slot, count, tpc>>
            /\ \A u \in Users : (slot[u] # r /\ slot'[u] = r) => pc[r] = "spawn"]_vars

\* With the ceiling reached by session 1's Job, a request of session 2 was
\* turned away by the pre-check before anything was uploaded or reserved.
C18_Witness ==
    /\ resp.line = 297
    /\ count = jobs
    /\ slot[1] = 1
    /\ nsess = 2
    /\ pc[2] = "done"
    /\ tpc[2] = "none"
    /\ registry = rports[1]

\* C19: with shared-port protection disabled nothing is ever reserved and no
\* request is rejected for a port conflict: a configuration is admitted
\* exactly when the range check finds no illegal port, whatever ports the
\* live Jobs hold, and one that declares an illegal port is still rejected.
C19_ProtectionDisabled ==
    /\ [](~shared_port_protections
            => /\ registry = {}
               /\ resp.status # "port_conflicts"
               /\ \A r \in Reqs : pc[r] = "ingest" =>
                      \A P \in PortSets :
                          AdmitOutcome(P).status
                              = IF \A p \in P : port_range_contains(p)
                                THEN "admitted" ELSE "illegal_ports")
    /\ [][\A r \in Reqs :
            (~shared_port_protections /\ pc[r] = "ingest" /\ pc'[r] = "wlock")
                => /\ \A p \in rports'[r] : port_range_contains(p)
                   /\ UNCHANGED registry]_vars

\* Two sessions have live Jobs that declared a common port.
C19_Witness ==
    /\ ~shared_port_protections
    /\ slot[1] # None
    /\ slot[2] # None
    /\ rports[slot[1]] \cap rports[slot[2]] # {}

\* C20, as stated: no reachable state has a Job installed in a slot and no
\* timeout task for it pending or ended.
C20_TimeoutArmedWithInstall ==
    \A u \in Users : slot[u] # None => tpc[slot[u]] # "none"

\* C20, amended: every installed Job gets exactly one timeout task, armed
\* with the Job's identifier and the ttl decided for the request by the next
\* step of the handler that installed it.  That step cannot be abandoned or
\* rejected, but it comes after the write guard is dropped: until then the
\* Job is in the slot with no task, and another operation can take the lock
\* and kill it.  A task is never armed again; from the arming on the request
\* is answered or at the info! event, where abandoning it leaves the task
\* armed; a request that ends before the installation arms none.
C20_TimeoutArmedAfterInstall ==
    /\ [](\A u \in Users :
            slot[u] # None => (tpc[slot[u]] # "none" \/ pc[slot[u]] = "arm"))
    /\ [](\A r \in Reqs :
            /\ tpc[r] # "none"
                   => /\ tttl[r] = IF star THEN timeout_starred ELSE timeout_default
                      /\ pc[r] \in {"log", "done"}
            /\ tpc[r] = "none" => (tttl[r] = 0 /\ pc[r] # "log")
            /\ (tpc[r] \in {"sleeping", "upgraded"} \/ pc[r] = "arm")
                   => ruser[r] \in Users)
    /\ [][\A r \in Reqs :
            /\ (pc[r] # "arm" /\ pc'[r] = "arm")
                   => /\ pc[r] = "spawn"
                      /\ slot[ruser[r]] = None
                      /\ slot'[ruser[r]] = r
            /\ (pc[r] = "arm" /\ pc'[r] # "arm")
                   => /\ tpc[r] = "none"
                      /\ tpc'[r] = "sleeping"
                      /\ tttl'[r] = IF star THEN timeout_starred ELSE timeout_default
                      /\ ruser'[r] = ruser[r]
                      /\ UNCHANGED <<slot, lock, count, registry, rports, reaps>>
                      /\ IF log_info
                         THEN pc'[r] = "log" /\ resp' = resp
                         ELSE pc'[r] = "done" /\ resp' = Response(443, "see_other", {})
            /\ (tpc[r] = "none" /\ tpc'[r] # "none") => pc[r] = "arm"
            /\ tpc[r] # "none" => (tpc'[r] # "none" /\ tttl'[r] = tttl[r])
            /\ (tpc[r] # "sleeping" /\ tpc'[r] = "sleeping") => tpc[r] = "none"
            /\ (pc[r] \notin {"arm", "log", "done"} /\ pc'[r] = "done")
                   => (tpc'[r] = "none" /\ \A u \in Users : slot'[u] # r)
            /\ (pc[r] = "log" /\ pc'[r] # "log")
                   => /\ pc'[r] = "done"
                      /\ resp'.status \in {"see_other", "abandoned"}
                      /\ UNCHANGED <<tpc, tttl, slot, count, registry, rports>>
            /\ \A u \in Users :
                   (slot'[u] = r /\ slot[u] # r) => pc'[r] = "arm"]_vars

\* The only request was answered 303 after its Job had been reaped: a delete
\* took the lock and killed the Job between the installation and the arming,
\* and the timeout task was armed all the same.
C20_Witness ==
    /\ ~log_info
    /\ nreq = 1
    /\ resp = Response(443, "see_other", {})
    /\ reaps[1] = 1
    /\ slot[1] = None
    /\ tpc[1] = "sleeping"
    /\ tttl[1] = timeout_default
====
